---- MODULE Spec2Model ----
(***************************************************************************)
(* Guestbook backend (src/index.js): submissions are stored as pending     *)
(* rows of the SQLite table `entries`, an administrator approves or        *)
(* rejects them through token-protected GET routes, and GET /api/entries   *)
(* serves the approved rows.                                               *)
(*                                                                         *)
(* JavaScript strings are modelled as sequences of one-character strings,  *)
(* so that trim, replace, slice, startsWith and Number are computed as     *)
(* the code computes them.  A JavaScript value that may be undefined is a  *)
(* record [t, s]: t = "undefined" or t = "string" with the characters s.   *)
(***************************************************************************)
EXTENDS Integers, Sequences, FiniteSets, TLC

(***************************************************************************)
(* Bounds of the model.                                                    *)
(***************************************************************************)
\* submissions accepted during one run (rows inserted on top of the initial database)
MaxNew == 2

(***************************************************************************)
(* Program constants.                                                      *)
(***************************************************************************)
\* LIMIT 50 of stmtApproved
ApprovedLimit == 50
\* cleanText(req.body?.name, 40)
NameMax == 40
\* cleanText(req.body?.message, 400)
MessageMax == 400

(***************************************************************************)
(* JavaScript values and string primitives.                                *)
(***************************************************************************)
Undefined == [t |-> "undefined", s |-> <<>>]
Str(chars) == [t |-> "string", s |-> chars]

\* n copies of the character c
Rep(c, n) == [i \in 1..n |-> c]

\* the characters \s matches (those the inputs of this model use)
IsSpace(c) == c \in {" ", "\t", "\n"}

\* v || "" followed by String(...): undefined and "" both give ""
OrEmpty(v) == IF v.t = "undefined" THEN <<>> ELSE v.s

\* a JavaScript value is falsy when it is undefined or the empty string
Falsy(v) == v.t = "undefined" \/ v.s = <<>>

RECURSIVE TrimStart(_)
TrimStart(s) ==
  IF s = <<>> THEN <<>>
  ELSE IF IsSpace(Head(s)) THEN TrimStart(Tail(s)) ELSE s

RECURSIVE TrimEnd(_)
TrimEnd(s) ==
  IF s = <<>> THEN <<>>
  ELSE IF IsSpace(s[Len(s)]) THEN TrimEnd(SubSeq(s, 1, Len(s) - 1)) ELSE s

\* String.prototype.trim
Trim(s) == TrimEnd(TrimStart(s))

\* s.replace(/\s+/g, " "): every maximal run of whitespace becomes one space
\* (the match starts at the first whitespace character of a run and takes
\* the whole run: that character becomes the space, the rest of the run goes)
CollapseSpaces(s) ==
  LET starts == SelectSeq([i \in 1..Len(s) |-> i],
                          LAMBDA i : ~IsSpace(s[i]) \/ i = 1 \/ ~IsSpace(s[i - 1]))
  IN  [k \in 1..Len(starts) |-> IF IsSpace(s[starts[k]]) THEN " " ELSE s[starts[k]]]

\* s.slice(0, maxLen)
SliceTo(s, maxLen) == SubSeq(s, 1, IF Len(s) < maxLen THEN Len(s) ELSE maxLen)

\* s.slice(from), from counted from 0
SliceFrom(s, from) == SubSeq(s, from + 1, Len(s))

\* s.startsWith(p)
StartsWith(s, p) == Len(s) >= Len(p) /\ SubSeq(s, 1, Len(p)) = p

\* function cleanText(str, maxLen), and two faulty variants of it: one that
\* forgets the length cap, one that forgets to trim
cleanTextLong(str, maxLen) ==
  LET s == Trim(OrEmpty(str))
  IN  IF s = <<>> THEN <<>> ELSE CollapseSpaces(s)

cleanTextNoTrim(str, maxLen) ==
  LET s == OrEmpty(str)
  IN  IF s = <<>> THEN <<>> ELSE SliceTo(CollapseSpaces(s), maxLen)

cleanText(str, maxLen) ==
  LET s == Trim(OrEmpty(str))
  IN  IF s = <<>> THEN <<>> ELSE SliceTo(CollapseSpaces(s), maxLen)

(***************************************************************************)
(* Numbers: Number(req.query.id) and the decimal text of an id.            *)
(***************************************************************************)
Digits == <<"0", "1", "2", "3", "4", "5", "6", "7", "8", "9">>
IsDigit(c) == \E d \in 1..10 : Digits[d] = c
DigitVal(c) == (CHOOSE d \in 1..10 : Digits[d] = c) - 1

NaN == [nan |-> TRUE, val |-> 0]
Num(n) == [nan |-> FALSE, val |-> n]

RECURSIVE DigitsVal(_, _)
DigitsVal(s, acc) ==
  IF s = <<>> THEN acc ELSE DigitsVal(Tail(s), 10 * acc + DigitVal(Head(s)))

AllDigits(s) == s # <<>> /\ \A i \in 1..Len(s) : IsDigit(s[i])

\* Number(v) for undefined and for strings holding a decimal integer literal
\* (optional sign, surrounding whitespace ignored, "" and blank strings give 0)
ToNumber(v) ==
  IF v.t = "undefined" THEN NaN
  ELSE LET s == Trim(v.s)
       IN  IF s = <<>> THEN Num(0)
           ELSE IF AllDigits(s) THEN Num(DigitsVal(s, 0))
           ELSE IF Head(s) = "-" /\ AllDigits(Tail(s)) THEN Num(0 - DigitsVal(Tail(s), 0))
           ELSE IF Head(s) = "+" /\ AllDigits(Tail(s)) THEN Num(DigitsVal(Tail(s), 0))
           ELSE NaN

\* !id for a number: NaN and 0 are falsy
NumFalsy(n) == n.nan \/ n.val = 0

\* String(n) of a non-negative integer (template literals, query strings)
RECURSIVE DecStr(_)
DecStr(n) == IF n < 10 THEN <<Digits[n + 1]>> ELSE DecStr(n \div 10) \o <<Digits[(n % 10) + 1]>>

\* function nowIso(): new Date(t).toISOString() for a clock reading t within
\* the first second of the epoch.  The text is never taken apart, so it is
\* kept as one string.
nowIso(t) ==
  "1970-01-01T00:00:00."
    \o (IF t < 10 THEN "00" ELSE IF t < 100 THEN "0" ELSE "") \o ToString(t) \o "Z"

(***************************************************************************)
(* Configuration (KONFIG): read once from the environment at startup.      *)
(***************************************************************************)
\* const ADMIN_TOKEN: never empty, the fallback chain ends in a non-empty literal
ADMIN_TOKEN == <<"s", "3">>
\* const PUBLIC_BASE_URL
PUBLIC_BASE_URL == <<"h">>

\* the SMTP part of process.env: each variable undefined or a string
EnvAllSet == [SMTP_HOST |-> Str(<<"m">>), SMTP_USER |-> Str(<<"u">>), SMTP_PASS |-> Str(<<"p">>)]
EnvNoHost == [EnvAllSet EXCEPT !.SMTP_HOST = Undefined]
EnvBlankPass == [EnvAllSet EXCEPT !.SMTP_PASS = Str(<<" ", " ">>)]
Envs == { EnvAllSet, EnvNoHost, EnvBlankPass }

\* function hasSmtp() (faulty variant: without trim(), blanks count as set)
hasSmtpNoTrim(e) ==
  OrEmpty(e.SMTP_HOST) # <<>> /\ OrEmpty(e.SMTP_USER) # <<>> /\ OrEmpty(e.SMTP_PASS) # <<>>

hasSmtp(e) ==
  LET host == Trim(OrEmpty(e.SMTP_HOST))
      user == Trim(OrEmpty(e.SMTP_USER))
      pass == Trim(OrEmpty(e.SMTP_PASS))
  IN  host # <<>> /\ user # <<>> /\ pass # <<>>

(***************************************************************************)
(* The table `entries`: its rows in rowid order, and the AUTOINCREMENT     *)
(* counter SQLite keeps in sqlite_sequence.                                *)
(***************************************************************************)
Max(a, b) == IF a >= b THEN a ELSE b

\* the largest rowid of the table (0 for an empty table)
MaxRowid(rows) == IF rows = <<>> THEN 0 ELSE rows[Len(rows)].id

\* id INTEGER PRIMARY KEY AUTOINCREMENT: one more than the largest rowid the
\* table has ever held (faulty variant: the number of rows)
NextRowidReuse(rows, sq) == Len(rows)

NextRowid(rows, sq) == Max(sq, MaxRowid(rows)) + 1

\* stmtInsert.run(entry): the new table (faulty variant: the row is inserted
\* as approved)
stmtInsertApproved(rows, sq, name, message, created_at) ==
  Append(rows, [id |-> NextRowid(rows, sq), name |-> name, message |-> message,
                status |-> "approved", created_at |-> created_at])

stmtInsert(rows, sq, name, message, created_at) ==
  Append(rows, [id |-> NextRowid(rows, sq), name |-> name, message |-> message,
                status |-> "pending", created_at |-> created_at])

Reverse(s) == [i \in 1..Len(s) |-> s[Len(s) + 1 - i]]

WithStatus(rows, st) == SelectSeq(rows, LAMBDA r : r.status = st)

\* stmtApproved.all() (faulty variants: no WHERE clause; ORDER BY id ASC)
stmtApprovedOldestFirst(rows) ==
  LET hit == WithStatus(rows, "approved")
  IN  [i \in 1..(IF Len(hit) < ApprovedLimit THEN Len(hit) ELSE ApprovedLimit) |->
         [id |-> hit[i].id, name |-> hit[i].name, message |-> hit[i].message,
          created_at |-> hit[i].created_at]]

stmtApprovedNoFilter(rows) ==
  LET hit == Reverse(rows)
  IN  [i \in 1..(IF Len(hit) < ApprovedLimit THEN Len(hit) ELSE ApprovedLimit) |->
         [id |-> hit[i].id, name |-> hit[i].name, message |-> hit[i].message,
          created_at |-> hit[i].created_at]]

stmtApproved(rows) ==
  LET hit == Reverse(WithStatus(rows, "approved"))
  IN  [i \in 1..(IF Len(hit) < ApprovedLimit THEN Len(hit) ELSE ApprovedLimit) |->
         [id |-> hit[i].id, name |-> hit[i].name, message |-> hit[i].message,
          created_at |-> hit[i].created_at]]

\* stmtPending.all() (faulty variant: capped like the public listing)
stmtPendingCapped(rows) ==
  LET hit == Reverse(WithStatus(rows, "pending"))
  IN  [i \in 1..(IF Len(hit) < ApprovedLimit THEN Len(hit) ELSE ApprovedLimit) |-> hit[i]]

stmtPending(rows) == Reverse(WithStatus(rows, "pending"))

\* stmtSetStatus.run({ id, status }), id a number that is not NaN (faulty
\* variants: an update without its WHERE clause; only a pending row is
\* updated; an update that changes nothing adds a copy of the row; an update
\* that matches no row inserts one; a second update to the same status takes
\* the decision back)
stmtSetStatusToggle(rows, id, st) ==
  [i \in 1..Len(rows) |->
     IF rows[i].id = id
     THEN [rows[i] EXCEPT !.status = IF rows[i].status = st THEN "pending" ELSE st]
     ELSE rows[i]]

stmtSetStatusNoWhere(rows, id, st) ==
  [i \in 1..Len(rows) |-> [rows[i] EXCEPT !.status = st]]

stmtSetStatusUpsert(rows, id, st) ==
  IF \E i \in 1..Len(rows) : rows[i].id = id
  THEN [i \in 1..Len(rows) |->
          IF rows[i].id = id THEN [rows[i] EXCEPT !.status = st] ELSE rows[i]]
  ELSE Append(rows, [id |-> id, name |-> <<>>, message |-> <<>>, status |-> st,
                     created_at |-> ""])

stmtSetStatusOnlyPending(rows, id, st) ==
  [i \in 1..Len(rows) |->
     IF rows[i].id = id /\ rows[i].status = "pending"
     THEN [rows[i] EXCEPT !.status = st] ELSE rows[i]]

stmtSetStatusAppend(rows, id, st) ==
  IF \E i \in 1..Len(rows) : rows[i].id = id /\ rows[i].status = st
  THEN Append(rows, [id |-> id, name |-> <<>>, message |-> <<>>, status |-> st,
                     created_at |-> ""])
  ELSE [i \in 1..Len(rows) |->
          IF rows[i].id = id THEN [rows[i] EXCEPT !.status = st] ELSE rows[i]]

stmtSetStatus(rows, id, st) ==
  [i \in 1..Len(rows) |-> IF rows[i].id = id THEN [rows[i] EXCEPT !.status = st] ELSE rows[i]]

(***************************************************************************)
(* Responses.  Every response is a record of one shape: the route, the     *)
(* HTTP status, and the body (a JSON object {ok, id}, a JSON array of      *)
(* rows, or a text).                                                       *)
(***************************************************************************)
NoResponse == [op |-> "none", code |-> 0, kind |-> "none", ok |-> FALSE, id |-> 0,
               text |-> "", rows |-> <<>>]
JsonOk(op, id) == [NoResponse EXCEPT !.op = op, !.code = 200, !.kind = "object",
                                     !.ok = TRUE, !.id = id]
JsonError(op, code, msg) == [NoResponse EXCEPT !.op = op, !.code = code, !.kind = "object",
                                               !.text = msg]
JsonRows(op, rows) == [NoResponse EXCEPT !.op = op, !.code = 200, !.kind = "array",
                                         !.rows = rows]
Text(op, code, msg) == [NoResponse EXCEPT !.op = op, !.code = code, !.kind = "text",
                                          !.text = msg]

(***************************************************************************)
(* Moderation gate.                                                        *)
(***************************************************************************)
Bearer == <<"B", "e", "a", "r", "e", "r", " ">>
Null == [t |-> "null", s |-> <<>>]

\* the token requireAdmin compares: req.query.token || (Bearer value or null)
\* (faulty variant: the Authorization header is looked at first)
PresentedTokenHeaderFirst(req) ==
  IF ~Falsy(req.authorization) /\ StartsWith(req.authorization.s, Bearer)
  THEN Str(SliceFrom(req.authorization.s, 7))
  ELSE IF ~Falsy(req.token) THEN req.token ELSE Null

PresentedToken(req) ==
  IF ~Falsy(req.token) THEN req.token
  ELSE IF ~Falsy(req.authorization) /\ StartsWith(req.authorization.s, Bearer)
       THEN Str(SliceFrom(req.authorization.s, 7))
       ELSE Null

\* function requireAdmin: TRUE when next() is called, FALSE when it answers 401
\* (faulty variant: a request with no token at all passes)
requireAdminAbsentPasses(req) ==
  PresentedToken(req).t # "string" \/ PresentedToken(req) = Str(ADMIN_TOKEN)

requireAdmin(req) == PresentedToken(req) = Str(ADMIN_TOKEN)

(***************************************************************************)
(* Admin routes, as functions of the request and the table: the response   *)
(* and the table after the handler.                                        *)
(***************************************************************************)
Unauthorized(op, rows) == [entries |-> rows, res |-> Text(op, 401, "Unauthorized")]

\* app.get("/admin/pending", requireAdmin, ...)
adminPending(req, rows) ==
  IF ~requireAdmin(req) THEN Unauthorized("pending", rows)
  ELSE [entries |-> rows, res |-> JsonRows("pending", stmtPending(rows))]

\* the body shared by /admin/approve and /admin/reject (faulty variants: the
\* id is validated before the token; the token is checked after the update)
SetStatusRouteIdFirst(op, st, msg, req, rows) ==
  LET id == ToNumber(req.id)
  IN  IF NumFalsy(id) THEN [entries |-> rows, res |-> Text(op, 400, "Missing id")]
      ELSE IF ~requireAdmin(req) THEN Unauthorized(op, rows)
      ELSE [entries |-> stmtSetStatus(rows, id.val, st), res |-> Text(op, 200, msg)]

SetStatusRouteLateGate(op, st, msg, req, rows) ==
  LET id == ToNumber(req.id)
  IN  IF NumFalsy(id) THEN [entries |-> rows, res |-> Text(op, 400, "Missing id")]
      ELSE [entries |-> stmtSetStatus(rows, id.val, st),
            res |-> IF requireAdmin(req) THEN Text(op, 200, msg) ELSE Text(op, 401, "Unauthorized")]

SetStatusRoute(op, st, msg, req, rows) ==
  IF ~requireAdmin(req) THEN Unauthorized(op, rows)
  ELSE LET id == ToNumber(req.id)
       IN  IF NumFalsy(id) THEN [entries |-> rows, res |-> Text(op, 400, "Missing id")]
           ELSE [entries |-> stmtSetStatus(rows, id.val, st), res |-> Text(op, 200, msg)]

\* app.get("/admin/approve", requireAdmin, ...)
adminApprove(req, rows) == SetStatusRoute("approve", "approved", "Freigegeben", req, rows)

\* app.get("/admin/reject", requireAdmin, ...)
adminReject(req, rows) == SetStatusRoute("reject", "rejected", "Abgelehnt", req, rows)

(***************************************************************************)
(* Notification mail.                                                      *)
(***************************************************************************)
\* encodeURIComponent: letters and digits are kept, the other characters of
\* the model's alphabet are percent-encoded
encodeURIComponent(s) ==
  [i \in 1..Len(s) |-> IF s[i] = " " THEN "%20" ELSE IF s[i] = "&" THEN "%26" ELSE s[i]]

\* the message sendModerationMail hands to transporter.sendMail: the links
\* of its html body, and the state of its dispatch
ModerationMail(entry) ==
  [id |-> entry.id,
   approve_url |-> [base |-> PUBLIC_BASE_URL, path |-> "/admin/approve",
                    id |-> DecStr(entry.id), token |-> encodeURIComponent(ADMIN_TOKEN)],
   reject_url |-> [base |-> PUBLIC_BASE_URL, path |-> "/admin/reject",
                   id |-> DecStr(entry.id), token |-> encodeURIComponent(ADMIN_TOKEN)],
   state |-> "sending"]

(***************************************************************************)
(* Inputs.                                                                 *)
(***************************************************************************)
\* the database file found at startup: a new one (with any environment), or
\* one left by earlier runs, in which entry 1 is still pending and
\* ApprovedLimit later entries have been approved (on a server without SMTP)
PreloadSize == ApprovedLimit + 1
OldRow(i) == [id |-> i, name |-> <<"o">>, message |-> <<"m">>,
              status |-> IF i = 1 THEN "pending" ELSE "approved", created_at |-> nowIso(0)]
Preloaded == [i \in 1..PreloadSize |-> OldRow(i)]
\* the same database before any moderation: every row pending
PreloadedPending == [i \in 1..PreloadSize |-> [OldRow(i) EXCEPT !.status = "pending"]]
InitialConfigs == { <<<<>>, e>> : e \in Envs } \cup { <<Preloaded, EnvNoHost>> }

Bodies ==
  { [name |-> Str(<<" ", " ", "A", " ", " ", " ", "B", " ", " ">>),
     message |-> Str(<<"H", "i", " ", "\t", " ", "y", "o", "u">>)],
    [name |-> Undefined, message |-> Str(<<"h", "i">>)],
    [name |-> Str(<<" ", "\t">>), message |-> Str(<<"h", "i">>)],
    [name |-> Str(<<"A">>), message |-> Str(<<>>)],
    [name |-> Str(<<"A">>), message |-> Str(<<" ", " ">>)],
    [name |-> Undefined, message |-> Undefined] }

\* ids a client may put in ?id=: none, texts that are no positive number,
\* the two oldest entries, and the entries inserted since startup into a
\* database that was not new
IdParams ==
  { Undefined, Str(<<>>), Str(<<"a", "b", "c">>), Str(<<"0">>), Str(<<"-", "1">>),
    Str(<<"1">>), Str(<<"2">>) }
    \cup { Str(DecStr(PreloadSize + i)) : i \in 1..MaxNew }

\* (?token=, Authorization:) pairs a client may send
Credentials ==
  { <<Undefined, Undefined>>,
    <<Str(ADMIN_TOKEN), Undefined>>,
    <<Str(<<"x">>), Undefined>>,
    <<Undefined, Str(Bearer \o ADMIN_TOKEN)>>,
    <<Undefined, Str(Bearer \o <<"x">>)>>,
    <<Undefined, Str(<<"B", "a", "s", "i", "c", " ">> \o ADMIN_TOKEN)>>,
    <<Str(<<>>), Str(Bearer \o ADMIN_TOKEN)>>,
    <<Str(<<"x">>), Str(Bearer \o ADMIN_TOKEN)>> }

AllAdminRequests ==
  { [token |-> c[1], authorization |-> c[2], id |-> i] : c \in Credentials, i \in IdParams }

\* the requests the server receives: every id with the token in the query,
\* every kind of credentials with the id of the oldest entry, and a request
\* with neither credentials nor id
AdminRequests ==
  { r \in AllAdminRequests :
      \/ r.token = Str(ADMIN_TOKEN) /\ r.authorization = Undefined
      \/ r.id = Str(<<"1">>)
      \/ r.token = Undefined /\ r.authorization = Undefined /\ r.id = Undefined }

\* /admin/pending reads no id
PendingRequests == { r \in AllAdminRequests : r.id = Undefined }

(***************************************************************************)
(* State.                                                                  *)
(***************************************************************************)
VARIABLES
  entries,   \* the rows of table entries, in rowid order
  seq,       \* sqlite_sequence.seq for table entries
  env,       \* the SMTP variables of process.env
  mails,     \* the messages handed to transporter.sendMail, each with the
             \* state of its dispatch: "sending" while the POST handler that
             \* sent it is suspended at its await, then "sent" or "failed"
  res,       \* the response sent last
  clock,     \* the reading of the system clock, in milliseconds
  was,       \* history: the status the row updated by the last step had before
             \* it, "none" when the last step ran no UPDATE that matched a row
  awaiting   \* the ids of the entries whose POST handler is suspended at
             \* `await sendModerationMail(created)`: their response is not sent

vars == <<entries, seq, env, mails, res, clock, was, awaiting>>

Init ==
  /\ \E c \in InitialConfigs : entries = c[1] /\ env = c[2]
  /\ seq = MaxRowid(entries)
  /\ mails = {}
  /\ res = NoResponse
  /\ clock = 1
  /\ was = "none"
  /\ awaiting = {}

\* fewer than MaxNew rows have been inserted since startup
Room == (IF seq >= PreloadSize THEN seq - PreloadSize ELSE seq) < MaxNew

\* app.get("/api/entries", ...)
getEntries(rows) == JsonRows("list", stmtApproved(rows))

GetEntries ==
  /\ res' = getEntries(entries)
  /\ was' = "none"
  /\ UNCHANGED <<entries, seq, env, mails, clock, awaiting>>

\* app.post("/api/entries", ...) up to its await, as a function of the body
\* and the state: validation, insert, and the call of sendModerationMail.
\* `inserted` tells whether a row was added; `responded` whether the response
\* `res` has been sent already (without SMTP nothing is awaited for longer
\* than a microtask) or is sent when sendMail settles.
postEntries(body, rows, sq, e, ms, clk) ==
  LET name == cleanText(body.name, NameMax)
      message == cleanText(body.message, MessageMax)
      id == NextRowid(rows, sq)
      created == [id |-> id, name |-> name, message |-> message, created_at |-> nowIso(clk)]
  IN  IF name = <<>> \/ message = <<>>
      THEN [inserted |-> FALSE, entries |-> rows, seq |-> sq, mails |-> ms,
            responded |-> TRUE,
            res |-> JsonError("submit", 400, "Name und Nachricht sind Pflicht.")]
      ELSE [inserted |-> TRUE,
            entries |-> stmtInsert(rows, sq, name, message, nowIso(clk)),
            seq |-> id,
            mails |-> IF hasSmtp(e) THEN ms \cup {ModerationMail(created)} ELSE ms,
            responded |-> ~hasSmtp(e),
            res |-> JsonOk("submit", id)]

\* The clock has advanced by the time of the next submission.
PostEntries(body) ==
  LET out == postEntries(body, entries, seq, env, mails, clock)
  IN  /\ out.inserted => Room
      /\ entries' = out.entries
      /\ seq' = out.seq
      /\ mails' = out.mails
      /\ res' = IF out.responded THEN out.res ELSE res
      /\ clock' = IF out.inserted THEN clock + 1 ELSE clock
      /\ was' = "none"
      /\ awaiting' = IF out.inserted /\ ~out.responded THEN awaiting \cup {out.seq} ELSE awaiting
      /\ UNCHANGED env

\* app.post("/api/entries", ...) from its await on, as a function of the
\* mail and of how sendMail settled ("sent": resolved, "failed": rejected):
\* the outcome is logged and the response sent (faulty variant: a failed
\* mail takes the entry back and fails the request)
afterSendMailRollback(m, outcome, rows) ==
  IF outcome = "failed"
  THEN [entries |-> SelectSeq(rows, LAMBDA r : r.id # m.id),
        res |-> JsonError("submit", 500, "Mail error")]
  ELSE [entries |-> rows, res |-> JsonOk("submit", m.id)]

afterSendMail(m, outcome, rows) == [entries |-> rows, res |-> JsonOk("submit", m.id)]

\* transporter.sendMail settles and the suspended POST handler resumes
MailSettles(m, outcome) ==
  LET out == afterSendMail(m, outcome, entries)
  IN  /\ m \in mails
      /\ m.state = "sending"
      /\ mails' = (mails \ {m}) \cup {[m EXCEPT !.state = outcome]}
      /\ entries' = out.entries
      /\ res' = out.res
      /\ was' = "none"
      /\ awaiting' = awaiting \ {m.id}
      /\ UNCHANGED <<seq, env, clock>>

\* the status of the row a request names, "none" when it names no row or
\* the handler does not get as far as the UPDATE
Before(out, req, rows) ==
  IF out.res.code # 200 THEN "none"
  ELSE LET n == ToNumber(req.id).val
           hit == { i \in 1..Len(rows) : rows[i].id = n }
       IN  IF hit # {} THEN rows[CHOOSE i \in hit : TRUE].status ELSE "none"

AdminPending(req) ==
  LET out == adminPending(req, entries)
  IN  /\ entries' = out.entries
      /\ res' = out.res
      /\ was' = "none"
      /\ UNCHANGED <<seq, env, mails, clock, awaiting>>

AdminApprove(req) ==
  LET out == adminApprove(req, entries)
  IN  /\ entries' = out.entries
      /\ res' = out.res
      /\ was' = Before(out, req, entries)
      /\ UNCHANGED <<seq, env, mails, clock, awaiting>>

AdminReject(req) ==
  LET out == adminReject(req, entries)
  IN  /\ entries' = out.entries
      /\ res' = out.res
      /\ was' = Before(out, req, entries)
      /\ UNCHANGED <<seq, env, mails, clock, awaiting>>

Next ==
  \/ GetEntries
  \/ \E body \in Bodies : PostEntries(body)
  \/ \E m \in mails, outcome \in {"sent", "failed"} : MailSettles(m, outcome)
  \/ \E req \in PendingRequests : AdminPending(req)
  \/ \E req \in AdminRequests : AdminApprove(req)
  \/ \E req \in AdminRequests : AdminReject(req)

Spec == Init /\ [][Next]_vars

\* the server started on a database that holds more rows of one status than
\* the public listing shows: the approved ones, or only pending ones
ListingConfigs ==
  { <<<<>>, EnvAllSet>>, <<Preloaded, EnvNoHost>>, <<PreloadedPending, EnvNoHost>> }

ListingInit ==
  /\ \E c \in ListingConfigs : entries = c[1] /\ env = c[2]
  /\ seq = MaxRowid(entries)
  /\ mails = {}
  /\ res = NoResponse
  /\ clock = 1
  /\ was = "none"
  /\ awaiting = {}

ListingSpec == ListingInit /\ [][Next]_vars

\* submissions whose name or message is at, just under or over its length
\* cap before or after normalization (also one whose cut falls right after
\* a collapsed space), and one that is blank
LongNames ==
  { Rep("a", NameMax - 1),
    Rep("b", NameMax),
    Rep("c", NameMax + 1),
    <<" ", " ">> \o Rep("d", NameMax - 1) \o <<" ", "\t">>,
    Rep("e", 20) \o <<" ", " ", "\t", " ">> \o Rep("f", NameMax - 20),
    Rep("g", NameMax - 1) \o <<" ", "\n">> \o <<"h", "i">> }

LongMessages ==
  { Rep("m", MessageMax),
    Rep("n", MessageMax + 1),
    Rep("o", MessageMax - 1) \o <<" ", "\t", " ">> \o <<"x", "y">> }

TextBodies ==
  { [name |-> Str(n), message |-> Str(<<"h", "i">>)] : n \in LongNames }
    \cup { [name |-> Str(<<"A">>), message |-> Str(m)] : m \in LongMessages }
    \cup { [name |-> Str(<<"A">>), message |-> Str(<<"h", "i">>)],
           [name |-> Str(Rep(" ", NameMax + 1)), message |-> Str(<<"h", "i">>)] }

\* a server without SMTP on a new database, receiving such submissions only
TextInit ==
  /\ entries = <<>>
  /\ env = EnvNoHost
  /\ seq = MaxRowid(entries)
  /\ mails = {}
  /\ res = NoResponse
  /\ clock = 1
  /\ was = "none"
  /\ awaiting = {}

TextNext == \E body \in TextBodies : PostEntries(body)

TextSpec == TextInit /\ [][TextNext]_vars

(***************************************************************************)
(* Vocabulary of the properties.                                           *)
(***************************************************************************)
Ids(rows) == { rows[i].id : i \in 1..Len(rows) }
HasStatus(rows, id, st) == \E i \in 1..Len(rows) : rows[i].id = id /\ rows[i].status = st

\* credentials whose token is the admin secret, and credentials whose token
\* is absent or another text
GoodCredentials ==
  { <<Str(ADMIN_TOKEN), Undefined>>,
    <<Undefined, Str(Bearer \o ADMIN_TOKEN)>>,
    <<Str(<<>>), Str(Bearer \o ADMIN_TOKEN)>> }
BadCredentials ==
  { <<Undefined, Undefined>>,
    <<Str(<<"x">>), Undefined>>,
    <<Undefined, Str(Bearer \o <<"x">>)>>,
    <<Undefined, Str(<<"B", "a", "s", "i", "c", " ">> \o ADMIN_TOKEN)>>,
    <<Str(<<"x">>), Str(Bearer \o ADMIN_TOKEN)>> }
GoodRequests == { r \in AllAdminRequests : <<r.token, r.authorization>> \in GoodCredentials }
BadRequests == { r \in AllAdminRequests : <<r.token, r.authorization>> \in BadCredentials }

\* an authorized request naming entry id, and the same with credentials c
Authorized(id) == [token |-> Str(ADMIN_TOKEN), authorization |-> Undefined, id |-> Str(DecStr(id))]
With(c, id) == [token |-> c[1], authorization |-> c[2], id |-> Str(DecStr(id))]

\* the ids the requests of the model name
NamedIds == {1, 2} \cup { PreloadSize + i : i \in 1..MaxNew }

ListedIds(listing) == { listing[i].id : i \in 1..Len(listing) }

\* how many approved entries have an id larger than id
LargerApproved(rows, id) ==
  Cardinality({ i \in 1..Len(rows) : rows[i].status = "approved" /\ rows[i].id > id })

\* bodies whose name or message is missing, empty or whitespace-only
InvalidBodies ==
  { [name |-> Undefined, message |-> Str(<<"h", "i">>)],
    [name |-> Str(<<" ", "\t">>), message |-> Str(<<"h", "i">>)],
    [name |-> Str(<<"A">>), message |-> Str(<<>>)],
    [name |-> Str(<<"A">>), message |-> Str(<<" ", " ">>)],
    [name |-> Undefined, message |-> Undefined] }
\* the valid body, and what its fields are after normalization
ValidBody ==
  [name |-> Str(<<" ", " ", "A", " ", " ", " ", "B", " ", " ">>),
   message |-> Str(<<"H", "i", " ", "\t", " ", "y", "o", "u">>)]
ValidName == <<"A", " ", "B">>
ValidMessage == <<"H", "i", " ", "y", "o", "u">>

(***************************************************************************)
(* C1  In every reachable state the public listing (the result of          *)
(* GET /api/entries) holds only entries whose current status is approved:  *)
(* no pending and no rejected entry is in it.                              *)
(***************************************************************************)
C1_PublicOnlyApproved ==
  LET listed == stmtApproved(entries)
  IN  \A i \in 1..Len(listed) :
        /\ HasStatus(entries, listed[i].id, "approved")
        /\ ~HasStatus(entries, listed[i].id, "pending")
        /\ ~HasStatus(entries, listed[i].id, "rejected")

\* a listing has just been served from a table holding approved, pending and
\* rejected entries
C1_Witness ==
  /\ res.op = "list" /\ res.code = 200
  /\ res.rows = stmtApproved(entries) /\ res.rows # <<>>
  /\ \E i \in 1..Len(entries) : entries[i].status = "pending"
  /\ \E i \in 1..Len(entries) : entries[i].status = "rejected"

(***************************************************************************)
(* C2  An admin request (/admin/pending, /admin/approve, /admin/reject)    *)
(* whose token is absent or differs from the admin secret is answered 401  *)
(* and leaves the table unchanged, whatever its id parameter is: the token *)
(* is checked before the id, so a bad token with a missing id gives 401.   *)
(***************************************************************************)
C2_BadTokenRejected ==
  \A req \in BadRequests :
    LET p == adminPending(req, entries)
        a == adminApprove(req, entries)
        r == adminReject(req, entries)
    IN  /\ p.res.code = 401 /\ a.res.code = 401 /\ r.res.code = 401
        /\ p.entries = entries /\ a.entries = entries /\ r.entries = entries

\* an approve or a reject with a bad token has been answered 401 while a
\* pending entry was there to be changed
C2_Witness ==
  /\ res.op \in {"approve", "reject"} /\ res.code = 401
  /\ \E i \in 1..Len(entries) : entries[i].status = "pending" /\ entries[i].id = 1

(***************************************************************************)
(* C3  The ids assigned by successful submissions are pairwise distinct    *)
(* and each is strictly greater than every id assigned before it, whatever *)
(* invalid submissions and approve/reject requests come in between; the id *)
(* a submission would be given next is greater than all ids ever assigned. *)
(***************************************************************************)
C3_IdsIncrease ==
  /\ \A i \in 1..(Len(entries) - 1) : entries[i].id < entries[i + 1].id
  /\ \A i \in 1..Len(entries) : entries[i].id <= seq
  /\ \A body \in Bodies :
       LET out == postEntries(body, entries, seq, env, mails, clock)
       IN  out.inserted =>
             /\ \A i \in 1..Len(entries) : out.res.id > entries[i].id
             /\ out.res.id > seq
             /\ out.res.id = out.entries[Len(out.entries)].id
  /\ (res.op = "submit" /\ res.code = 200) => res.id \in Ids(entries)
  /\ \A m \in mails : m.id \in Ids(entries)

\* two submissions have succeeded, with a rejection in between
C3_Witness ==
  /\ Len(entries) = 2 /\ entries[1].status = "rejected"
  /\ res = JsonOk("submit", 2) /\ entries[2].id = 2 /\ entries[1].id = 1

(***************************************************************************)
(* C4  A submission whose name or message is missing, empty or whitespace  *)
(* only is answered 400 with ok = false, adds no entry and attempts no     *)
(* notification: table, id counter and mails are as before the request.    *)
(***************************************************************************)
C4_InvalidSubmissionRejected ==
  \A body \in InvalidBodies :
    LET out == postEntries(body, entries, seq, env, mails, clock)
    IN  /\ out.responded /\ out.res.code = 400 /\ out.res.kind = "object" /\ ~out.res.ok
        /\ ~out.inserted
        /\ out.entries = entries /\ out.seq = seq /\ out.mails = mails

\* an invalid submission has been answered 400 by a server that would have
\* sent a mail, with entries in its table
C4_Witness ==
  /\ res.op = "submit" /\ res.code = 400 /\ ~res.ok
  /\ hasSmtp(env) /\ entries # <<>> /\ Len(entries) < PreloadSize

(***************************************************************************)
(* C5  A valid submission adds exactly one entry: it has the normalized    *)
(* name and message, status pending and the id the response carries.  The  *)
(* entry is in the result of GET /admin/pending from the insert on (also   *)
(* while the response is still outstanding) for as long as it is pending.  *)
(***************************************************************************)
C5_ValidSubmissionInserted ==
  /\ LET out == postEntries(ValidBody, entries, seq, env, mails, clock)
         new == out.entries[Len(out.entries)]
         listed == adminPending(Authorized(new.id), out.entries).res.rows
     IN  /\ out.inserted
         /\ Len(out.entries) = Len(entries) + 1
         /\ SubSeq(out.entries, 1, Len(entries)) = entries
         /\ new.name = ValidName /\ new.message = ValidMessage
         /\ new.status = "pending"
         /\ out.res = JsonOk("submit", new.id)
         /\ new.id \notin Ids(entries)
         /\ \E i \in 1..Len(listed) : listed[i] = new
  /\ \A i \in 1..Len(entries) :
       entries[i].status = "pending" =>
         LET listed == adminPending(Authorized(entries[i].id), entries).res.rows
         IN  \E j \in 1..Len(listed) : listed[j] = entries[i]

\* the pending listing has been served, with the new entry in it, while the
\* handler that inserted the entry still awaits the mail transport
C5_Witness ==
  /\ res.op = "pending" /\ res.code = 200
  /\ \E m \in mails :
       /\ m.state = "sending"
       /\ \E i \in 1..Len(res.rows) :
            /\ res.rows[i].id = m.id /\ res.rows[i].status = "pending"
            /\ res.rows[i].name = ValidName /\ res.rows[i].message = ValidMessage

(***************************************************************************)
(* C6  As claimed: a step that takes an entry from pending to approved     *)
(* (an authorized approve) leaves it approved, in the public listing and   *)
(* out of the pending listing, in every state of the table, also when more *)
(* than ApprovedLimit approved entries have larger ids.                    *)
(***************************************************************************)
C6_Original ==
  [][\A i \in 1..Len(entries) :
       (entries[i].status = "pending" /\ entries'[i].status = "approved") =>
         /\ entries'[i].id \in ListedIds(stmtApproved(entries'))
         /\ entries'[i].id \notin ListedIds(stmtPending(entries'))]_vars

(***************************************************************************)
(* C6, amended  An authorized approve naming a pending entry is answered   *)
(* 200 and leaves the entry approved and out of the pending listing; the   *)
(* public listing includes it exactly when fewer than ApprovedLimit        *)
(* approved entries have larger ids.                                       *)
(***************************************************************************)
C6_ApprovePublishesWithinLimit ==
  \A id \in NamedIds :
    HasStatus(entries, id, "pending") =>
      \A c \in GoodCredentials :
        LET out == adminApprove(With(c, id), entries)
        IN  /\ out.res.code = 200
            /\ HasStatus(out.entries, id, "approved")
            /\ id \notin ListedIds(stmtPending(out.entries))
            /\ id \in ListedIds(stmtApproved(out.entries))
                 <=> LargerApproved(out.entries, id) < ApprovedLimit

\* approves of pending entries have been answered: the oldest entry is
\* approved and beyond the limit of the listing, the newest is approved and
\* listed
C6_Witness ==
  /\ res.op = "approve" /\ res.code = 200 /\ was = "pending"
  /\ Len(entries) > PreloadSize
  /\ entries[1].status = "approved"
  /\ entries[1].id \notin ListedIds(stmtApproved(entries))
  /\ entries[Len(entries)].status = "approved"
  /\ entries[Len(entries)].id \in ListedIds(stmtApproved(entries))

(***************************************************************************)
(* C7  Approve and reject are idempotent: the same authorized request for  *)
(* the same id issued twice in a row gets the same success response both   *)
(* times and leaves table, public listing and pending listing as after     *)
(* the first request, with no row added.                                   *)
(***************************************************************************)
C7_Idempotent ==
  \A req \in GoodRequests :
    (ToNumber(req.id).val \in NamedIds /\ (req.token = Str(ADMIN_TOKEN) \/ req.id = Str(<<"1">>))) =>
      /\ LET o1 == adminApprove(req, entries)
             o2 == adminApprove(req, o1.entries)
         IN  /\ o1.res.code = 200 /\ o2.res = o1.res
             /\ o2.entries = o1.entries
             /\ stmtApproved(o2.entries) = stmtApproved(o1.entries)
             /\ stmtPending(o2.entries) = stmtPending(o1.entries)
             /\ Len(o2.entries) = Len(entries)
      /\ LET o1 == adminReject(req, entries)
             o2 == adminReject(req, o1.entries)
         IN  /\ o1.res.code = 200 /\ o2.res = o1.res
             /\ o2.entries = o1.entries
             /\ stmtApproved(o2.entries) = stmtApproved(o1.entries)
             /\ stmtPending(o2.entries) = stmtPending(o1.entries)
             /\ Len(o2.entries) = Len(entries)

\* an approve of the only entry has been answered 200 when the entry was
\* approved already
C7_Witness ==
  /\ res.op = "approve" /\ res.code = 200 /\ was = "approved"
  /\ Len(entries) = 1 /\ entries[1].status = "approved"

(***************************************************************************)
(* C8  As claimed: once an entry has been rejected it is in no later       *)
(* public listing, even if an authorized approve for it follows.           *)
(***************************************************************************)
C8_RejectedNeverPublic ==
  [][\A i \in 1..Len(entries) :
       entries[i].status = "rejected" =>
         entries[i].id \notin ListedIds(stmtApproved(entries'))]_vars

(***************************************************************************)
(* C9  Status updates are last-write-wins, with no guard on the current    *)
(* status: an authorized approve of an existing entry leaves it approved   *)
(* and an authorized reject leaves it rejected, whatever its status was    *)
(* (pending, approved or rejected), and after two such requests in a row   *)
(* the status is the one the second request sets.                          *)
(***************************************************************************)
C9_LastWriteWins ==
  \A id \in NamedIds :
    id \in Ids(entries) =>
      LET a == adminApprove(Authorized(id), entries).entries
          r == adminReject(Authorized(id), entries).entries
      IN  /\ HasStatus(a, id, "approved")
          /\ HasStatus(r, id, "rejected")
          /\ HasStatus(adminApprove(Authorized(id), r).entries, id, "approved")
          /\ HasStatus(adminReject(Authorized(id), a).entries, id, "rejected")
          /\ HasStatus(adminReject(Authorized(id), r).entries, id, "rejected")
          /\ HasStatus(adminApprove(Authorized(id), a).entries, id, "approved")

\* an approve of the only entry has been answered 200 when the entry was
\* rejected, and the entry is approved
C9_Witness ==
  /\ res.op = "approve" /\ res.code = 200 /\ was = "rejected"
  /\ Len(entries) = 1 /\ entries[1].status = "approved"

(***************************************************************************)
(* C10  When sendMail rejects during a valid submission, the request is    *)
(* still answered 200 {ok: true, id} with the id of the inserted entry,    *)
(* and the entry stays in the table as it is (nothing is rolled back).     *)
(***************************************************************************)
C10_MailFailureSwallowed ==
  \A m \in mails :
    m.state = "sending" =>
      LET out == afterSendMail(m, "failed", entries)
      IN  /\ out.res = JsonOk("submit", m.id)
          /\ out.entries = entries
          /\ m.id \in Ids(out.entries)

\* a mail has failed, its submission has been answered 200 with the id of
\* the entry, and the entry is in the table, pending
C10_Witness ==
  \E m \in mails :
    /\ m.state = "failed"
    /\ res = JsonOk("submit", m.id)
    /\ HasStatus(entries, m.id, "pending")

(***************************************************************************)
(* C11  The submission response does not wait for the outcome of the mail  *)
(* dispatch: while the moderation mail of an entry is still being sent,    *)
(* the POST that inserted the entry has already been answered, so a        *)
(* transport that never settles keeps no submitter waiting.                *)
(* The handler awaits sendModerationMail before res.json: the state right  *)
(* after the insert has the mail in flight and the request unanswered,     *)
(* and only a step of the transport (MailSettles) leaves it.               *)
(***************************************************************************)
C11_ResponseDoesNotWait ==
  \A m \in mails : m.state = "sending" => m.id \notin awaiting

(***************************************************************************)
(* C12  An authorized approve or reject whose id is missing or is not a    *)
(* positive number (zero, negative, non-numeric) is answered 400 and       *)
(* changes no entry; a positive numeric id is answered 200.                *)
(* The handlers test only `if (!id)`: Number("-1") is -1, which is truthy, *)
(* so the UPDATE runs (matching no row) and the answer is 200.             *)
(***************************************************************************)
PositiveId(v) == ~ToNumber(v).nan /\ ToNumber(v).val > 0

AuthorizedWith(v) == [token |-> Str(ADMIN_TOKEN), authorization |-> Undefined, id |-> v]

C12_InvalidIdRejected ==
  \A v \in IdParams :
    LET a == adminApprove(AuthorizedWith(v), entries)
        r == adminReject(AuthorizedWith(v), entries)
    IN  IF PositiveId(v)
        THEN a.res.code = 200 /\ r.res.code = 200
        ELSE /\ a.res.code = 400 /\ a.entries = entries
             /\ r.res.code = 400 /\ r.entries = entries

(***************************************************************************)
(* C13  GET /api/entries answers with exactly the approved entries of the  *)
(* (at most) 50 largest ids, by id descending, each projected to id, name, *)
(* message and created_at (no status); GET /admin/pending answers with     *)
(* all pending entries, whole rows, by id descending, with no cap.         *)
(***************************************************************************)
Descending(listing) ==
  \A i \in 1..Len(listing) : i < Len(listing) => listing[i].id > listing[i + 1].id

IndexOfStatus(rows, st) == { j \in 1..Len(rows) : rows[j].status = st }

IsApprovedListing(listing, rows) ==
  LET approved == IndexOfStatus(rows, "approved")
      n == Cardinality(approved)
  IN  /\ Len(listing) = (IF n < 50 THEN n ELSE 50)
      /\ Descending(listing)
      /\ \A i \in 1..Len(listing) :
           /\ DOMAIN listing[i] = {"id", "name", "message", "created_at"}
           /\ \E j \in approved :
                /\ rows[j].id = listing[i].id
                /\ rows[j].name = listing[i].name
                /\ rows[j].message = listing[i].message
                /\ rows[j].created_at = listing[i].created_at
      /\ \A j \in approved :
           \/ rows[j].id \in ListedIds(listing)
           \/ Len(listing) = 50 /\ rows[j].id < listing[50].id

IsPendingListing(listing, rows) ==
  LET pending == IndexOfStatus(rows, "pending")
  IN  /\ Len(listing) = Cardinality(pending)
      /\ Descending(listing)
      /\ \A i \in 1..Len(listing) : \E j \in pending : rows[j] = listing[i]
      /\ \A j \in pending : rows[j].id \in ListedIds(listing)

C13_Listings ==
  /\ LET out == getEntries(entries)
     IN  out.code = 200 /\ IsApprovedListing(out.rows, entries)
  /\ LET out == adminPending(AuthorizedWith(Undefined), entries).res
     IN  out.code = 200 /\ IsPendingListing(out.rows, entries)

\* GET /admin/pending has been answered with more than 50 rows
C13_Witness ==
  /\ res.op = "pending" /\ res.code = 200
  /\ Len(res.rows) > 50
  /\ IsPendingListing(res.rows, entries)

\* GET /api/entries has been answered with 50 rows while 51 entries are
\* approved: the approved entry of the smallest id is left out
C13_WitnessCap ==
  /\ res.op = "list"
  /\ Len(res.rows) = 50
  /\ Cardinality(IndexOfStatus(entries, "approved")) > 50
  /\ IsApprovedListing(res.rows, entries)

(***************************************************************************)
(* C14  An authorized approve or reject whose id is a positive number that *)
(* names no entry is answered with the success confirmation, creates no    *)
(* entry and leaves every entry as it is.                                  *)
(***************************************************************************)
AbsentIds(rows) == NamedIds \ Ids(rows)

C14_UnknownIdNoOp ==
  \A id \in AbsentIds(entries) :
    LET a == adminApprove(Authorized(id), entries)
        r == adminReject(Authorized(id), entries)
    IN  /\ a.res = Text("approve", 200, "Freigegeben")
        /\ r.res = Text("reject", 200, "Abgelehnt")
        /\ a.entries = entries
        /\ r.entries = entries

\* an approve has been answered 200 although its UPDATE matched no row, on
\* a table that holds entries and lacks one of the ids the requests name
C14_Witness ==
  /\ res = Text("approve", 200, "Freigegeben")
  /\ was = "none"
  /\ entries # <<>>
  /\ AbsentIds(entries) # {}
  /\ adminApprove(Authorized(CHOOSE id \in AbsentIds(entries) : TRUE), entries).entries = entries

(***************************************************************************)
(* C15  No step removes an entry or changes the id, name, message or       *)
(* created_at of one; a step changes the status of an entry only if it is  *)
(* an authorized approve or reject answered 200 that names the id of that  *)
(* entry, and then it changes no other entry and adds none.  Submissions   *)
(* and the two listings change no field of an existing entry, so the set   *)
(* of ids only grows.                                                      *)
(***************************************************************************)
Changed(before, after) == { i \in 1..Len(before) : after[i] # before[i] }

C15_FrameStep ==
  /\ Len(entries') >= Len(entries)
  /\ \A i \in Changed(entries, entries') :
       /\ [entries'[i] EXCEPT !.status = entries[i].status] = entries[i]
       /\ Changed(entries, entries') = {i}
       /\ Len(entries') = Len(entries)
       /\ res'.code = 200
       /\ \/ res'.op = "approve" /\ entries'[i].status = "approved"
          \/ res'.op = "reject" /\ entries'[i].status = "rejected"
       /\ \E req \in AdminRequests \cap GoodRequests :
            /\ ToNumber(req.id) = Num(entries[i].id)
            /\ entries' \in {adminApprove(req, entries).entries,
                              adminReject(req, entries).entries}

C15_Frame == [][C15_FrameStep]_vars

\* an approve has changed the status of one of several entries, and the
\* other entries are there, one of them still pending
C15_Witness ==
  /\ res = Text("approve", 200, "Freigegeben")
  /\ was = "pending"
  /\ Len(entries) >= 2
  /\ \E i, j \in 1..Len(entries) :
       i # j /\ entries[i].status = "approved" /\ entries[j].status = "pending"

(***************************************************************************)
(* C16  A moderation mail is dispatched only for an entry that has been    *)
(* inserted, its approve link and its reject link both carry the id of     *)
(* that entry, and no entry gets more than one mail.  When the transport   *)
(* is unconfigured (host, user or password missing or blank) nothing is    *)
(* dispatched at all and a valid submission is still inserted and          *)
(* answered 200 with its id.                                               *)
(***************************************************************************)
Unconfigured(e) ==
  \E k \in {"SMTP_HOST", "SMTP_USER", "SMTP_PASS"} :
    e[k] = Undefined \/ (e[k].t = "string" /\ \A i \in 1..Len(e[k].s) : IsSpace(e[k].s[i]))

C16_MailPerInsertedEntry ==
  /\ \A m \in mails :
       /\ m.id \in Ids(entries)
       /\ m.approve_url.path = "/admin/approve"
       /\ m.reject_url.path = "/admin/reject"
       /\ ToNumber(Str(m.approve_url.id)) = Num(m.id)
       /\ ToNumber(Str(m.reject_url.id)) = Num(m.id)
       /\ \A n \in mails : n.id = m.id => n = m
  /\ \A b \in InvalidBodies : postEntries(b, entries, seq, env, mails, clock).mails = mails
  /\ LET out == postEntries(ValidBody, entries, seq, env, mails, clock)
     IN  /\ out.mails \ mails \subseteq { m \in out.mails : m.id = out.seq /\ m.id \notin Ids(entries) }
         /\ Cardinality(out.mails \ mails) <= 1
         /\ Unconfigured(env) =>
              /\ mails = {} /\ out.mails = {}
              /\ out.inserted /\ out.responded /\ out.res = JsonOk("submit", out.seq)
              /\ HasStatus(out.entries, out.seq, "pending")

\* two submissions have been made with the transport configured: each has
\* its own mail, whose links name its entry
C16_Witness ==
  /\ ~Unconfigured(env)
  /\ Len(entries) = 2
  /\ { m.id : m \in mails } = Ids(entries)
  /\ Cardinality(mails) = 2

\* a submission has been answered 200 with the id of its entry on a server
\* whose SMTP password is blank, and no mail has been dispatched
C16_WitnessUnconfigured ==
  /\ env = EnvBlankPass
  /\ res.op = "submit" /\ res.code = 200
  /\ HasStatus(entries, res.id, "pending")
  /\ mails = {}

(***************************************************************************)
(* C17  The stored name is the submitted name trimmed, with every run of   *)
(* whitespace collapsed to one space, cut to its first 40 characters: a    *)
(* name longer than 40 characters after normalization is stored as exactly *)
(* 40 characters, a shorter one whole.  The same holds of the message with *)
(* 400.  Normalization is stated here by what stays of the text: every     *)
(* character that is no whitespace, and one space for each whitespace      *)
(* character that stands between two words right before the second.        *)
(***************************************************************************)
NormalizedText(s) ==
  LET at == [i \in 1..Len(s) |-> i]
      solid == SelectSeq(at, LAMBDA i : ~IsSpace(s[i]))
      kept == SelectSeq(at, LAMBDA i :
                \/ ~IsSpace(s[i])
                \/ solid # <<>> /\ i > solid[1] /\ i < Len(s) /\ ~IsSpace(s[i + 1]))
  IN  [k \in 1..Len(kept) |-> IF IsSpace(s[kept[k]]) THEN " " ELSE s[kept[k]]]

Normalized(v) == NormalizedText(OrEmpty(v))

FirstChars(s, n) == [i \in 1..(IF Len(s) < n THEN Len(s) ELSE n) |-> s[i]]

StoredAs(text, v, cap) ==
  /\ text = FirstChars(Normalized(v), cap)
  /\ Len(Normalized(v)) > cap => Len(text) = cap
  /\ Len(Normalized(v)) <= cap => text = Normalized(v)

C17_StoredTextCut ==
  \A b \in TextBodies :
    LET out == postEntries(b, entries, seq, env, mails, clock)
    IN  IF Normalized(b.name) = <<>> \/ Normalized(b.message) = <<>>
        THEN ~out.inserted
        ELSE /\ out.inserted
             /\ Len(out.entries) = Len(entries) + 1
             /\ StoredAs(out.entries[Len(out.entries)].name, b.name, 40)
             /\ StoredAs(out.entries[Len(out.entries)].message, b.message, 400)

\* the table holds a name of exactly 40 characters that was cut from a
\* longer one, and a message of exactly 400 characters cut from a longer one
C17_Witness ==
  /\ \E i \in 1..Len(entries) : \E b \in TextBodies :
       /\ Len(Normalized(b.name)) > 40
       /\ Len(entries[i].name) = 40
       /\ entries[i].name = FirstChars(Normalized(b.name), 40)
  /\ \E i \in 1..Len(entries) : \E b \in TextBodies :
       /\ Len(Normalized(b.message)) > 400
       /\ Len(entries[i].message) = 400
       /\ entries[i].message = FirstChars(Normalized(b.message), 400)

(***************************************************************************)
(* C18  No step sets the status of an entry that is approved or rejected   *)
(* back to pending, and an entry that is not in the answer of GET          *)
(* /admin/pending is in no later answer of it.                             *)
(***************************************************************************)
PendingIds(rows) == ListedIds(adminPending(AuthorizedWith(Undefined), rows).res.rows)

C18_NoWayBackStep ==
  \/ entries' = entries
  \/ /\ \A i \in 1..Len(entries) :
          entries[i].status # "pending" =>
            /\ i <= Len(entries')
            /\ entries'[i].id = entries[i].id
            /\ entries'[i].status # "pending"
     /\ \A id \in Ids(entries) \ PendingIds(entries) : id \notin PendingIds(entries')

C18_NoWayBack == [][C18_NoWayBackStep]_vars

\* a reject has been answered 200 for an entry that was rejected already,
\* and every entry that is not pending is missing from GET /admin/pending
C18_Witness ==
  /\ res = Text("reject", 200, "Abgelehnt")
  /\ was = "rejected"
  /\ \E i \in 1..Len(entries) :
       entries[i].status = "rejected" /\ entries[i].id \notin PendingIds(entries)

(***************************************************************************)
(* C19  The token a request presents is its ?token= parameter when that    *)
(* is not empty, and the value of its Bearer header only otherwise; the    *)
(* request is authorized exactly when that one value is the admin secret.  *)
(* So a wrong, non-empty ?token= together with a correct Bearer header is  *)
(* answered 401 and changes nothing.                                       *)
(***************************************************************************)
WrongQueryGoodHeader == <<Str(<<"x">>), Str(Bearer \o ADMIN_TOKEN)>>

TokenCases ==
  Credentials \cup
    { <<Str(ADMIN_TOKEN), Str(Bearer \o <<"x">>)>>,
      <<Str(<<>>), Str(Bearer \o <<"x">>)>>,
      <<Undefined, Str(Bearer)>>,
      <<Str(ADMIN_TOKEN \o <<"x">>), Undefined>> }

BearerValue(h) ==
  IF h.t = "string" /\ Len(h.s) >= 7 /\ [i \in 1..7 |-> h.s[i]] = <<"B", "e", "a", "r", "e", "r", " ">>
  THEN [given |-> TRUE, value |-> [i \in 1..(Len(h.s) - 7) |-> h.s[i + 7]]]
  ELSE [given |-> FALSE, value |-> <<>>]

ShouldPass(c) ==
  IF c[1].t = "string" /\ c[1].s # <<>>
  THEN c[1].s = <<"s", "3">>
  ELSE BearerValue(c[2]).given /\ BearerValue(c[2]).value = <<"s", "3">>

C19_QueryTokenFirst ==
  /\ \A c \in TokenCases :
       LET req == [token |-> c[1], authorization |-> c[2], id |-> Str(<<"1">>)]
           p == adminPending(req, entries)
           a == adminApprove(req, entries)
           r == adminReject(req, entries)
       IN  IF ShouldPass(c)
           THEN p.res.code = 200 /\ a.res.code = 200 /\ r.res.code = 200
           ELSE /\ p.res.code = 401 /\ a.res.code = 401 /\ r.res.code = 401
                /\ p.entries = entries /\ a.entries = entries /\ r.entries = entries
  /\ ~ShouldPass(WrongQueryGoodHeader)

\* an approve of the pending entry 1 that came with a wrong ?token= and the
\* right Bearer header has been answered 401, and entry 1 is still pending
C19_Witness ==
  /\ HasStatus(entries, 1, "pending")
  /\ res = adminApprove(With(WrongQueryGoodHeader, 1), entries).res
  /\ res.op = "approve" /\ res.code = 401
====
